---- MODULE Spec2Model ----
(***************************************************************************)
(* A model of the SQL merge tool of src/components/sql-merge-tool.tsx:     *)
(* the placeholder counter, the value escaper, the merger, the formatter,  *)
(* the beautifier with its fallback, the minifier, the highlighter, and    *)
(* the handlers of the component.  A text is a sequence of one-character   *)
(* strings; a scanner is modelled by the body of its loop (one step        *)
(* operator per loop) and the loop itself by a recursive operator that     *)
(* iterates the step.                                                      *)
(***************************************************************************)
EXTENDS Integers, Sequences, FiniteSets, TLC

VARIABLES sql, params, op, res,
          lib, jsonInput, paramsText, merged, formatted, error, formatMode, pending

\* The state of the component beyond the SQL text, and its environment: the
\* behaviour of the external beautifier (lib) and the beautify calls that
\* have not completed yet (pending).
uiVars == <<lib, jsonInput, paramsText, merged, formatted, error, formatMode, pending>>

vars == <<sql, params, op, res, uiVars>>

(***************************************************************************)
(* Bounds of the model.                                                    *)
(***************************************************************************)
MaxLen == 4
MaxParams == 2
MaxStrLen == 3
MaxMinLen == 4

(***************************************************************************)
(* Characters.                                                             *)
(***************************************************************************)
SQ == "'"
DQ == "\""
\* The back-tick character (SANY cannot lex a back-tick inside a string literal).
BQ == "BACKTICK"
QM == "?"
SP == " "
NL == "\n"
\* sql[i] for an index past the end of the text: JavaScript's undefined
\* (and the "" of `?? ""`); it differs from every character.
Undef == ""

At(s, i) == IF i >= 1 /\ i <= Len(s) THEN s[i] ELSE Undef

\* The text t has pat at position i on.
HasAt(t, i, pat) == i + Len(pat) - 1 <= Len(t) /\ SubSeq(t, i, i + Len(pat) - 1) = pat

RECURSIVE TextsUpTo(_, _)
TextsUpTo(alphabet, n) ==
  IF n = 0 THEN {<<>>}
  ELSE LET shorter == TextsUpTo(alphabet, n - 1)
       IN shorter \cup {Append(t, c) : t \in {x \in shorter : Len(x) = n - 1}, c \in alphabet}

RECURSIVE ListsUpTo(_, _)
ListsUpTo(S, n) ==
  IF n = 0 THEN {<<>>}
  ELSE LET shorter == ListsUpTo(S, n - 1)
       IN shorter \cup {Append(t, c) : t \in {x \in shorter : Len(x) = n - 1}, c \in S}

(***************************************************************************)
(* Parameter values: what JSON.parse can put in the array.                 *)
(*   t   : the variant                                                     *)
(*   fin : Number.isFinite(v), for a number                                *)
(*   n   : the value of a finite number                                    *)
(*   b   : the value of a boolean                                          *)
(*   s   : the content of a string; for a non-finite number or a           *)
(*         composite, the text its toString() gives                        *)
(***************************************************************************)
Val(t, fin, n, b, s) == [t |-> t, fin |-> fin, n |-> n, b |-> b, s |-> s]
NullV == Val("null", FALSE, 0, FALSE, <<>>)
UndefinedV == Val("undefined", FALSE, 0, FALSE, <<>>)
NumV(n) == Val("number", TRUE, n, FALSE, <<>>)
NaNV == Val("number", FALSE, 0, FALSE, <<"N", "a", "N">>)
BoolV(b) == Val("boolean", FALSE, 0, b, <<>>)
StrV(s) == Val("string", FALSE, 0, FALSE, s)
ObjV(s) == Val("object", FALSE, 0, FALSE, s)

Digit(d) == CASE d = 0 -> "0" [] d = 1 -> "1" [] d = 2 -> "2" [] d = 3 -> "3"
              [] d = 4 -> "4" [] d = 5 -> "5" [] d = 6 -> "6" [] d = 7 -> "7"
              [] d = 8 -> "8" [] d = 9 -> "9"

RECURSIVE NatToText(_)
NatToText(n) == IF n < 10 THEN <<Digit(n)>>
                ELSE Append(NatToText(n \div 10), Digit(n % 10))

\* String(v) of JavaScript.
JsString(v) ==
  CASE v.t = "null" -> <<"n", "u", "l", "l">>
    [] v.t = "undefined" -> <<"u", "n", "d", "e", "f", "i", "n", "e", "d">>
    [] v.t = "number" /\ v.fin ->
         IF v.n < 0 THEN <<"-">> \o NatToText(0 - v.n) ELSE NatToText(v.n)
    [] v.t = "boolean" -> IF v.b THEN <<"t", "r", "u", "e">>
                          ELSE <<"f", "a", "l", "s", "e">>
    [] OTHER -> v.s

\* s.replace(/'/g, "''")
RECURSIVE DoubleQuotes(_)
DoubleQuotes(s) ==
  IF s = <<>> THEN <<>>
  ELSE (IF Head(s) = SQ THEN <<SQ, SQ>> ELSE <<Head(s)>>) \o DoubleQuotes(Tail(s))

\* A plausible slip: the replace without the g flag doubles the first quote only.
RECURSIVE DoubleFirstQuote(_)
DoubleFirstQuote(s) ==
  IF s = <<>> THEN <<>>
  ELSE IF Head(s) = SQ THEN <<SQ, SQ>> \o Tail(s)
  ELSE <<Head(s)>> \o DoubleFirstQuote(Tail(s))

escapeSqlValueFirstOnly(v) ==
  IF v.t = "null" \/ v.t = "undefined" THEN <<"N", "U", "L", "L">>
  ELSE IF v.t = "number" /\ v.fin THEN JsString(v)
  ELSE IF v.t = "boolean" THEN (IF v.b THEN <<"T", "R", "U", "E">>
                                ELSE <<"F", "A", "L", "S", "E">>)
  ELSE <<SQ>> \o DoubleFirstQuote(JsString(v)) \o <<SQ>>

\* A plausible slip: the text is escaped but the wrapping quotes are left out.
escapeSqlValueUnwrapped(v) ==
  IF v.t = "null" \/ v.t = "undefined" THEN <<"N", "U", "L", "L">>
  ELSE IF v.t = "number" /\ v.fin THEN JsString(v)
  ELSE IF v.t = "boolean" THEN (IF v.b THEN <<"T", "R", "U", "E">>
                                ELSE <<"F", "A", "L", "S", "E">>)
  ELSE DoubleQuotes(JsString(v))

\* A plausible slip: the text is wrapped in quotes but its quotes are not doubled.
escapeSqlValueNoDoubling(v) ==
  IF v.t = "null" \/ v.t = "undefined" THEN <<"N", "U", "L", "L">>
  ELSE IF v.t = "number" /\ v.fin THEN JsString(v)
  ELSE IF v.t = "boolean" THEN (IF v.b THEN <<"T", "R", "U", "E">>
                                ELSE <<"F", "A", "L", "S", "E">>)
  ELSE <<SQ>> \o JsString(v) \o <<SQ>>

escapeSqlValue(v) ==
  IF v.t = "null" \/ v.t = "undefined" THEN <<"N", "U", "L", "L">>
  ELSE IF v.t = "number" /\ v.fin THEN JsString(v)
  ELSE IF v.t = "boolean" THEN (IF v.b THEN <<"T", "R", "U", "E">>
                                ELSE <<"F", "A", "L", "S", "E">>)
  ELSE <<SQ>> \o DoubleQuotes(JsString(v)) \o <<SQ>>

(***************************************************************************)
(* countPlaceholders: the state of the loop is the index i (from 1), the   *)
(* three quote flags and the count.                                        *)
(***************************************************************************)
CountInit == [i |-> 1, inSingle |-> FALSE, inDouble |-> FALSE, inBack |-> FALSE,
              count |-> 0]

\* A plausible slip: each quote kind tracked on its own, whatever region the
\* scan is in.
CountStepUnguarded(s, st) ==
  LET ch == s[st.i]
  IN IF ch = SQ THEN [st EXCEPT !.inSingle = ~@, !.i = @ + 1]
     ELSE IF ch = DQ THEN [st EXCEPT !.inDouble = ~@, !.i = @ + 1]
     ELSE IF ch = BQ THEN [st EXCEPT !.inBack = ~@, !.i = @ + 1]
     ELSE IF ~st.inSingle /\ ~st.inDouble /\ ~st.inBack /\ ch = QM
     THEN [st EXCEPT !.count = @ + 1, !.i = @ + 1]
     ELSE [st EXCEPT !.i = @ + 1]

\* One iteration of the loop, the i++ of the for statement included.
CountStep(s, st) ==
  LET ch == s[st.i]
      next == At(s, st.i + 1)
  IN IF ~st.inDouble /\ ~st.inBack /\ ch = SQ
     THEN IF st.inSingle /\ next = SQ
          THEN [st EXCEPT !.i = @ + 2]
          ELSE [st EXCEPT !.inSingle = ~@, !.i = @ + 1]
     ELSE IF ~st.inSingle /\ ~st.inBack /\ ch = DQ
     THEN IF st.inDouble /\ next = DQ
          THEN [st EXCEPT !.i = @ + 2]
          ELSE [st EXCEPT !.inDouble = ~@, !.i = @ + 1]
     ELSE IF ~st.inSingle /\ ~st.inDouble /\ ch = BQ
     THEN IF st.inBack /\ next = BQ
          THEN [st EXCEPT !.i = @ + 2]
          ELSE [st EXCEPT !.inBack = ~@, !.i = @ + 1]
     ELSE IF ~st.inSingle /\ ~st.inDouble /\ ~st.inBack /\ ch = QM
     THEN [st EXCEPT !.count = @ + 1, !.i = @ + 1]
     ELSE [st EXCEPT !.i = @ + 1]

RECURSIVE CountLoop(_, _)
CountLoop(s, st) == IF st.i <= Len(s) THEN CountLoop(s, CountStep(s, st)) ELSE st

countPlaceholders(s) == CountLoop(s, CountInit).count

(***************************************************************************)
(* mergeSql: the loop state adds the output text and pi, the number of     *)
(* parameters consumed (params[pi] of the code is ps[pi + 1] here).        *)
(***************************************************************************)
MergeInit == [i |-> 1, inSingle |-> FALSE, inDouble |-> FALSE, inBack |-> FALSE,
              out |-> <<>>, pi |-> 0]

\* A plausible slip: the back-tick branch forgotten, so that a back-tick is
\* copied as an ordinary character and quotes nothing.
MergeStepNoBacktick(s, ps, st) ==
  LET ch == s[st.i]
      next == At(s, st.i + 1)
  IN IF ~st.inDouble /\ ~st.inBack /\ ch = SQ
     THEN IF st.inSingle /\ next = SQ
          THEN [st EXCEPT !.out = @ \o <<SQ, SQ>>, !.i = @ + 2]
          ELSE [st EXCEPT !.inSingle = ~@, !.out = Append(@, ch), !.i = @ + 1]
     ELSE IF ~st.inSingle /\ ~st.inBack /\ ch = DQ
     THEN IF st.inDouble /\ next = DQ
          THEN [st EXCEPT !.out = @ \o <<DQ, DQ>>, !.i = @ + 2]
          ELSE [st EXCEPT !.inDouble = ~@, !.out = Append(@, ch), !.i = @ + 1]
     ELSE IF ~st.inSingle /\ ~st.inDouble /\ ~st.inBack /\ ch = QM
     THEN IF st.pi >= Len(ps)
          THEN [st EXCEPT !.out = Append(@, QM), !.i = @ + 1]
          ELSE [st EXCEPT !.out = @ \o escapeSqlValue(ps[st.pi + 1]),
                          !.pi = @ + 1, !.i = @ + 1]
     ELSE [st EXCEPT !.out = Append(@, ch), !.i = @ + 1]

\* A plausible slip: a placeholder without a parameter is dropped instead of
\* being copied.
MergeStepDropsUnfilled(s, ps, st) ==
  LET ch == s[st.i]
      next == At(s, st.i + 1)
  IN IF ~st.inDouble /\ ~st.inBack /\ ch = SQ
     THEN IF st.inSingle /\ next = SQ
          THEN [st EXCEPT !.out = @ \o <<SQ, SQ>>, !.i = @ + 2]
          ELSE [st EXCEPT !.inSingle = ~@, !.out = Append(@, ch), !.i = @ + 1]
     ELSE IF ~st.inSingle /\ ~st.inBack /\ ch = DQ
     THEN IF st.inDouble /\ next = DQ
          THEN [st EXCEPT !.out = @ \o <<DQ, DQ>>, !.i = @ + 2]
          ELSE [st EXCEPT !.inDouble = ~@, !.out = Append(@, ch), !.i = @ + 1]
     ELSE IF ~st.inSingle /\ ~st.inDouble /\ ch = BQ
     THEN IF st.inBack /\ next = BQ
          THEN [st EXCEPT !.out = @ \o <<BQ, BQ>>, !.i = @ + 2]
          ELSE [st EXCEPT !.inBack = ~@, !.out = Append(@, ch), !.i = @ + 1]
     ELSE IF ~st.inSingle /\ ~st.inDouble /\ ~st.inBack /\ ch = QM
     THEN IF st.pi >= Len(ps)
          THEN [st EXCEPT !.i = @ + 1]
          ELSE [st EXCEPT !.out = @ \o escapeSqlValue(ps[st.pi + 1]),
                          !.pi = @ + 1, !.i = @ + 1]
     ELSE [st EXCEPT !.out = Append(@, ch), !.i = @ + 1]

\* One iteration of the loop, the i++ of the for statement included.
MergeStep(s, ps, st) ==
  LET ch == s[st.i]
      next == At(s, st.i + 1)
  IN IF ~st.inDouble /\ ~st.inBack /\ ch = SQ
     THEN IF st.inSingle /\ next = SQ
          THEN [st EXCEPT !.out = @ \o <<SQ, SQ>>, !.i = @ + 2]
          ELSE [st EXCEPT !.inSingle = ~@, !.out = Append(@, ch), !.i = @ + 1]
     ELSE IF ~st.inSingle /\ ~st.inBack /\ ch = DQ
     THEN IF st.inDouble /\ next = DQ
          THEN [st EXCEPT !.out = @ \o <<DQ, DQ>>, !.i = @ + 2]
          ELSE [st EXCEPT !.inDouble = ~@, !.out = Append(@, ch), !.i = @ + 1]
     ELSE IF ~st.inSingle /\ ~st.inDouble /\ ch = BQ
     THEN IF st.inBack /\ next = BQ
          THEN [st EXCEPT !.out = @ \o <<BQ, BQ>>, !.i = @ + 2]
          ELSE [st EXCEPT !.inBack = ~@, !.out = Append(@, ch), !.i = @ + 1]
     ELSE IF ~st.inSingle /\ ~st.inDouble /\ ~st.inBack /\ ch = QM
     THEN IF st.pi >= Len(ps)
          THEN [st EXCEPT !.out = Append(@, QM), !.i = @ + 1]
          ELSE [st EXCEPT !.out = @ \o escapeSqlValue(ps[st.pi + 1]),
                          !.pi = @ + 1, !.i = @ + 1]
     ELSE [st EXCEPT !.out = Append(@, ch), !.i = @ + 1]

RECURSIVE MergeLoop(_, _, _)
MergeLoop(s, ps, st) ==
  IF st.i <= Len(s) THEN MergeLoop(s, ps, MergeStep(s, ps, st)) ELSE st

\* The error of a MergeResult: <<>> when the field is absent, else the
\* message's fixed text and the two numbers it reports.
NoError == <<>>
TooMany(provided, used) == <<"Too many parameters", provided, used>>
NotEnough(placeholders, provided) == <<"Not enough parameters", placeholders, provided>>

\* A plausible slip: the two comparisons taken in the other order and against
\* the wrong count.
MergeReturnSwapped(ps, placeholderCount, st) ==
  IF st.pi < placeholderCount /\ Len(ps) > 0
  THEN [result |-> st.out, error |-> NotEnough(placeholderCount, Len(ps)),
        usedCount |-> st.pi, placeholderCount |-> placeholderCount]
  ELSE IF st.pi < Len(ps)
  THEN [result |-> st.out, error |-> TooMany(Len(ps), st.pi),
        usedCount |-> st.pi, placeholderCount |-> placeholderCount]
  ELSE [result |-> st.out, error |-> NoError,
        usedCount |-> st.pi, placeholderCount |-> placeholderCount]

\* The reconciliation after the scan.
MergeReturn(ps, placeholderCount, st) ==
  IF st.pi < Len(ps)
  THEN [result |-> st.out, error |-> TooMany(Len(ps), st.pi),
        usedCount |-> st.pi, placeholderCount |-> placeholderCount]
  ELSE IF st.pi < placeholderCount
  THEN [result |-> st.out, error |-> NotEnough(placeholderCount, Len(ps)),
        usedCount |-> st.pi, placeholderCount |-> placeholderCount]
  ELSE [result |-> st.out, error |-> NoError,
        usedCount |-> st.pi, placeholderCount |-> placeholderCount]

mergeSql(s, ps) == MergeReturn(ps, countPlaceholders(s), MergeLoop(s, ps, MergeInit))

(***************************************************************************)
(* minifySqlPreserveStrings.                                               *)
(***************************************************************************)
\* /\s/.test(ch), for the white space of the model's texts
IsSpace(ch) == ch \in {SP, NL, "\t"}

MinifyInit == [i |-> 1, inSingle |-> FALSE, inDouble |-> FALSE, inBack |-> FALSE,
               out |-> <<>>, prevWasSpace |-> FALSE]

\* A plausible slip: the test for a preceding `(` or `,` forgotten, so that a
\* space is kept after them.
appendSpaceAfterAny(out) ==
  LET prev == At(out, Len(out))
  IN IF prev = Undef THEN out ELSE Append(out, SP)

\* appendSpace: prev is undefined for an empty out
appendSpace(out) ==
  LET prev == At(out, Len(out))
  IN IF prev = "(" \/ prev = "," \/ prev = Undef THEN out ELSE Append(out, SP)

\* A plausible slip: the peek looks at the next character only, not at the
\* next character that is no white space.
NextCharOnly(s, i) == At(s, i + 1)

\* let k = i + 1; while (k < input.length && /\s/.test(input[k])) k++;
\* nextNon = input[k] ?? ""
RECURSIVE SkipSpaces(_, _)
SkipSpaces(s, k) == IF k <= Len(s) /\ IsSpace(s[k]) THEN SkipSpaces(s, k + 1) ELSE k

NextNonSpace(s, i) == At(s, SkipSpaces(s, i + 1))

\* The quote branch the outer loop takes at st, as <<quote character, flag>>;
\* <<>> if it takes none.
MinifyBranch(s, st) ==
  LET ch == s[st.i]
  IN IF ~st.inDouble /\ ~st.inBack /\ ch = SQ THEN <<SQ, "inSingle">>
     ELSE IF ~st.inSingle /\ ~st.inBack /\ ch = DQ THEN <<DQ, "inDouble">>
     ELSE IF ~st.inSingle /\ ~st.inDouble /\ ch = BQ THEN <<BQ, "inBack">>
     ELSE <<>>

\* The head of a quote branch: the flag set, the quote copied, i++.
MinifyOpen(st, q, flag) ==
  [st EXCEPT ![flag] = TRUE, !.out = Append(@, q), !.i = @ + 1]

\* One iteration of the inner while loop of a quoted region opened by the
\* quote character q, whose flag is the field named flag.
MinifyQuotedBody(s, st, q, flag) ==
  LET c == s[st.i]
      n == At(s, st.i + 1)
  IN IF c = q /\ n = q
     THEN [st EXCEPT !.out = @ \o <<q, q>>, !.i = @ + 2]
     ELSE IF c = q
     THEN [st EXCEPT !.out = Append(@, q), !.i = @ + 1, ![flag] = FALSE]
     ELSE [st EXCEPT !.out = Append(@, c), !.i = @ + 1]

\* while (i < input.length && inX) { ... }
RECURSIVE MinifyQuoted(_, _, _, _)
MinifyQuoted(s, st, q, flag) ==
  IF st.i <= Len(s) /\ st[flag]
  THEN MinifyQuoted(s, MinifyQuotedBody(s, st, q, flag), q, flag)
  ELSE st

\* One iteration of the outer while loop.
MinifyStep(s, st) ==
  LET ch == s[st.i]
      b == MinifyBranch(s, st)
  IN IF b # <<>>
     THEN [MinifyQuoted(s, MinifyOpen(st, b[1], b[2]), b[1], b[2])
             EXCEPT !.prevWasSpace = FALSE]
     ELSE IF ~st.inSingle /\ ~st.inDouble /\ ~st.inBack /\ IsSpace(ch)
     THEN IF ~st.prevWasSpace
          THEN LET nextNon == NextNonSpace(s, st.i)
               IN [st EXCEPT !.out = IF nextNon # ")" /\ nextNon # ","
                                     THEN appendSpace(@) ELSE @,
                             !.prevWasSpace = TRUE, !.i = @ + 1]
          ELSE [st EXCEPT !.i = @ + 1]
     ELSE [st EXCEPT !.out = Append(@, ch), !.prevWasSpace = FALSE, !.i = @ + 1]

RECURSIVE MinifyLoop(_, _)
MinifyLoop(s, st) == IF st.i <= Len(s) THEN MinifyLoop(s, MinifyStep(s, st)) ELSE st

\* String.prototype.trim
RECURSIVE TrimStart(_)
TrimStart(s) == IF s # <<>> /\ IsSpace(Head(s)) THEN TrimStart(Tail(s)) ELSE s

RECURSIVE TrimEnd(_)
TrimEnd(s) ==
  IF s # <<>> /\ IsSpace(s[Len(s)]) THEN TrimEnd(SubSeq(s, 1, Len(s) - 1)) ELSE s

\* A plausible slip: the final trim forgotten.
TrimForgotten(s) == s

Trim(s) == TrimEnd(TrimStart(s))

minifySqlPreserveStrings(s) ==
  IF s = <<>> THEN <<>> ELSE Trim(MinifyLoop(s, MinifyInit).out)

(***************************************************************************)
(* Letters, digits and the keyword set shared by formatSql and             *)
(* highlightSqlHtml.                                                       *)
(***************************************************************************)
LowerLetters == <<"a", "b", "c", "d", "e", "f", "g", "h", "i", "j", "k", "l", "m",
                  "n", "o", "p", "q", "r", "s", "t", "u", "v", "w", "x", "y", "z">>
UpperLetters == <<"A", "B", "C", "D", "E", "F", "G", "H", "I", "J", "K", "L", "M",
                  "N", "O", "P", "Q", "R", "S", "T", "U", "V", "W", "X", "Y", "Z">>
AlphabetSize == Len(LowerLetters)

\* /[A-Za-z]/.test(ch)
IsLetter(ch) == \E k \in 1..AlphabetSize : ch = LowerLetters[k] \/ ch = UpperLetters[k]

\* /[0-9]/.test(ch)
IsDigit(ch) == ch \in {"0", "1", "2", "3", "4", "5", "6", "7", "8", "9"}

\* String.prototype.toUpperCase and toLowerCase, one character at a time
UpperChar(ch) ==
  IF \E k \in 1..AlphabetSize : ch = LowerLetters[k]
  THEN UpperLetters[CHOOSE k \in 1..AlphabetSize : ch = LowerLetters[k]]
  ELSE ch

LowerChar(ch) ==
  IF \E k \in 1..AlphabetSize : ch = UpperLetters[k]
  THEN LowerLetters[CHOOSE k \in 1..AlphabetSize : ch = UpperLetters[k]]
  ELSE ch

toUpperCase(w) == [k \in 1..Len(w) |-> UpperChar(w[k])]
toLowerCase(w) == [k \in 1..Len(w) |-> LowerChar(w[k])]

\* A plausible slip: the keyword is emitted as it was typed.
toUpperCaseForgotten(w) == w

\* const keywords = new Set([...])
keywords ==
  {<<"s", "e", "l", "e", "c", "t">>,
   <<"f", "r", "o", "m">>,
   <<"w", "h", "e", "r", "e">>,
   <<"g", "r", "o", "u", "p">>,
   <<"b", "y">>,
   <<"h", "a", "v", "i", "n", "g">>,
   <<"o", "r", "d", "e", "r">>,
   <<"l", "i", "m", "i", "t">>,
   <<"o", "f", "f", "s", "e", "t">>,
   <<"j", "o", "i", "n">>,
   <<"l", "e", "f", "t">>,
   <<"r", "i", "g", "h", "t">>,
   <<"i", "n", "n", "e", "r">>,
   <<"o", "u", "t", "e", "r">>,
   <<"c", "r", "o", "s", "s">>,
   <<"o", "n">>,
   <<"a", "n", "d">>,
   <<"o", "r">>,
   <<"u", "n", "i", "o", "n">>,
   <<"a", "l", "l">>,
   <<"i", "n", "t", "o">>,
   <<"v", "a", "l", "u", "e", "s">>,
   <<"s", "e", "t">>,
   <<"u", "p", "d", "a", "t", "e">>,
   <<"i", "n", "s", "e", "r", "t">>,
   <<"d", "e", "l", "e", "t", "e">>,
   <<"d", "i", "s", "t", "i", "n", "c", "t">>,
   <<"a", "s">>,
   <<"c", "a", "s", "e">>,
   <<"w", "h", "e", "n">>,
   <<"t", "h", "e", "n">>,
   <<"e", "n", "d">>,
   <<"i", "s">>,
   <<"n", "u", "l", "l">>,
   <<"l", "i", "k", "e">>,
   <<"i", "n">>,
   <<"e", "x", "i", "s", "t", "s">>,
   <<"n", "o", "t">>,
   <<"b", "e", "t", "w", "e", "e", "n">>,
   <<"t", "o", "p">>}

(***************************************************************************)
(* formatSql, first pass: keyword casing outside quoted regions.           *)
(***************************************************************************)
FormatInit == [i |-> 1, inSingle |-> FALSE, inDouble |-> FALSE, inBack |-> FALSE,
               out |-> <<>>, word |-> <<>>]

\* A plausible slip: every word is taken for a keyword.
FormatFlushWordAll(st) == [st EXCEPT !.out = @ \o toUpperCase(st.word), !.word = <<>>]

\* flushWord of formatSql
FormatFlushWord(st) ==
  IF st.word = <<>> THEN st
  ELSE [st EXCEPT !.out = @ \o (IF toLowerCase(st.word) \in keywords
                                THEN toUpperCase(st.word) ELSE st.word),
                  !.word = <<>>]

\* One quote branch of the loop: flushWord, then the escape pair or the toggle.
FormatQuote(s, st, q, flag) ==
  LET f == FormatFlushWord(st)
      next == At(s, st.i + 1)
  IN IF f[flag] /\ next = q
     THEN [f EXCEPT !.out = @ \o <<q, q>>, !.i = @ + 2]
     ELSE [f EXCEPT ![flag] = ~@, !.out = Append(@, q), !.i = @ + 1]

\* One iteration of the for loop, the i++ of its header included.
FormatStep(s, st) ==
  LET ch == s[st.i]
  IN IF ~st.inDouble /\ ~st.inBack /\ ch = SQ
     THEN FormatQuote(s, st, SQ, "inSingle")
     ELSE IF ~st.inSingle /\ ~st.inBack /\ ch = DQ
     THEN FormatQuote(s, st, DQ, "inDouble")
     ELSE IF ~st.inSingle /\ ~st.inDouble /\ ch = BQ
     THEN FormatQuote(s, st, BQ, "inBack")
     ELSE IF ~st.inSingle /\ ~st.inDouble /\ ~st.inBack /\ IsLetter(ch)
     THEN [st EXCEPT !.word = Append(@, ch), !.i = @ + 1]
     ELSE LET f == FormatFlushWord(st)
          IN [f EXCEPT !.out = Append(@, ch), !.i = @ + 1]

RECURSIVE FormatLoop(_, _)
FormatLoop(s, st) == IF st.i <= Len(s) THEN FormatLoop(s, FormatStep(s, st)) ELSE st

\* The text after the first pass.
formatCased(s) == FormatFlushWord(FormatLoop(s, FormatInit)).out

(***************************************************************************)
(* formatSql, second pass: regular-expression replacements on the cased    *)
(* text.                                                                   *)
(***************************************************************************)
\* /[ \t]/.test(ch)
IsBlank(ch) == ch \in {SP, "\t"}

\* /\w/.test(ch): the characters between which \b finds no boundary
IsRegexWordChar(ch) == IsLetter(ch) \/ IsDigit(ch) \/ ch = "_"

RECURSIVE SkipBlanks(_, _)
SkipBlanks(s, k) == IF k <= Len(s) /\ IsBlank(s[k]) THEN SkipBlanks(s, k + 1) ELSE k

\* .replace(/[ \t]+/g, " ")
RECURSIVE CollapseBlanks(_, _)
CollapseBlanks(s, i) ==
  IF i > Len(s) THEN <<>>
  ELSE IF IsBlank(s[i]) THEN <<SP>> \o CollapseBlanks(s, SkipBlanks(s, i))
  ELSE <<s[i]>> \o CollapseBlanks(s, i + 1)

\* .replace(/\s*\n\s*/g, "\n"): a run of white space with a newline in it
\* becomes one newline; a run without one stays.
RECURSIVE CollapseAroundNewlines(_, _)
CollapseAroundNewlines(s, i) ==
  IF i > Len(s) THEN <<>>
  ELSE IF IsSpace(s[i])
  THEN LET e == SkipSpaces(s, i)
       IN (IF \E k \in i..e - 1 : s[k] = NL THEN <<NL>> ELSE SubSeq(s, i, e - 1))
          \o CollapseAroundNewlines(s, e)
  ELSE <<s[i]>> \o CollapseAroundNewlines(s, i + 1)

\* Where a match of W1\s+W2...\s+Wn\b that starts at position i of s ends
\* (the position after it), for the words ws from the k-th on; 0 if there is
\* no match.
RECURSIVE MatchPhrase(_, _, _, _)
MatchPhrase(s, i, ws, k) ==
  LET w == ws[k]
      e == i + Len(w)
  IN IF ~HasAt(s, i, w) THEN 0
     ELSE IF k = Len(ws)
     THEN IF e <= Len(s) /\ IsRegexWordChar(s[e]) THEN 0 ELSE e
     ELSE IF e <= Len(s) /\ IsSpace(s[e])
     THEN MatchPhrase(s, SkipSpaces(s, e), ws, k + 1)
     ELSE 0

\* The first of the alternatives alts that matches at position i, as
\* <<end>>; <<>> if none does.
RECURSIVE MatchAny(_, _, _, _)
MatchAny(s, i, alts, a) ==
  IF a > Len(alts) THEN <<>>
  ELSE LET m == MatchPhrase(s, i, alts[a], 1)
       IN IF m > 0 THEN <<m>> ELSE MatchAny(s, i, alts, a + 1)

\* .replace(/\s+\b(X)\b/g, "\n" + indent + "$1") for the alternatives alts
\* of X: the white space before a match is replaced, the match is kept.
RECURSIVE ReplaceBefore(_, _, _, _)
ReplaceBefore(s, i, alts, indent) ==
  IF i > Len(s) THEN <<>>
  ELSE IF IsSpace(s[i])
  THEN LET e == SkipSpaces(s, i)
           m == MatchAny(s, e, alts, 1)
       IN IF m # <<>>
          THEN <<NL>> \o indent \o SubSeq(s, e, m[1] - 1) \o ReplaceBefore(s, m[1], alts, indent)
          ELSE SubSeq(s, i, e - 1) \o ReplaceBefore(s, e, alts, indent)
  ELSE <<s[i]>> \o ReplaceBefore(s, i + 1, alts, indent)

\* The clause rules, in the order formatSql applies them.
ClauseRules ==
  <<<<<<"U", "N", "I", "O", "N">>, <<"A", "L", "L">>>>,
    <<<<"L", "E", "F", "T">>, <<"O", "U", "T", "E", "R">>, <<"J", "O", "I", "N">>>>,
    <<<<"R", "I", "G", "H", "T">>, <<"O", "U", "T", "E", "R">>, <<"J", "O", "I", "N">>>>,
    <<<<"F", "U", "L", "L">>, <<"O", "U", "T", "E", "R">>, <<"J", "O", "I", "N">>>>,
    <<<<"I", "N", "N", "E", "R">>, <<"J", "O", "I", "N">>>>,
    <<<<"L", "E", "F", "T">>, <<"J", "O", "I", "N">>>>,
    <<<<"R", "I", "G", "H", "T">>, <<"J", "O", "I", "N">>>>,
    <<<<"O", "U", "T", "E", "R">>, <<"J", "O", "I", "N">>>>,
    <<<<"C", "R", "O", "S", "S">>, <<"J", "O", "I", "N">>>>,
    <<<<"J", "O", "I", "N">>>>,
    <<<<"G", "R", "O", "U", "P">>, <<"B", "Y">>>>,
    <<<<"O", "R", "D", "E", "R">>, <<"B", "Y">>>>,
    <<<<"H", "A", "V", "I", "N", "G">>>>,
    <<<<"W", "H", "E", "R", "E">>>>,
    <<<<"F", "R", "O", "M">>>>,
    <<<<"U", "N", "I", "O", "N">>>>,
    <<<<"L", "I", "M", "I", "T">>>>,
    <<<<"O", "F", "F", "S", "E", "T">>>>>>

\* A plausible slip: the rules for the clause phrases forgotten.
ClauseRulesNone == <<>>

\* The clause rules from the k-th on, applied one after the other.
RECURSIVE ApplyClauseRules(_, _)
ApplyClauseRules(s, k) ==
  IF k > Len(ClauseRules) THEN s
  ELSE ApplyClauseRules(ReplaceBefore(s, 1, <<ClauseRules[k]>>, <<>>), k + 1)

AndOr == <<<<<<"A", "N", "D">>>>, <<<<"O", "R">>>>>>
AndOrIndent == <<SP, SP>>

RECURSIVE SkipNewlines(_, _)
SkipNewlines(s, k) == IF k <= Len(s) /\ s[k] = NL THEN SkipNewlines(s, k + 1) ELSE k

\* .replace(/\n{3,}/g, "\n\n")
RECURSIVE CollapseNewlines(_, _)
CollapseNewlines(s, i) ==
  IF i > Len(s) THEN <<>>
  ELSE IF s[i] = NL
  THEN LET e == SkipNewlines(s, i)
       IN (IF e - i >= 3 THEN <<NL, NL>> ELSE SubSeq(s, i, e - 1)) \o CollapseNewlines(s, e)
  ELSE <<s[i]>> \o CollapseNewlines(s, i + 1)

\* The second pass.
formatLayout(cased) ==
  LET normal == Trim(CollapseAroundNewlines(CollapseBlanks(cased, 1), 1))
      clauses == ApplyClauseRules(normal, 1)
      logical == ReplaceBefore(clauses, 1, AndOr, AndOrIndent)
  IN CollapseNewlines(logical, 1)

formatSql(s) == IF s = <<>> THEN <<>> ELSE formatLayout(formatCased(s))

(***************************************************************************)
(* beautifyWithPMTSF.  The external library is the environment: lib says   *)
(* how import("poor-mans-t-sql-formatter") and the library's formatSql     *)
(* behave.                                                                 *)
(*   "importFails"      : the dynamic import rejects                       *)
(*   "callThrows"       : lib.formatSql(sql, options) throws               *)
(*   "noFormatFunction" : the module has no formatSql                      *)
(*   "noText"           : the result has no text that is a string          *)
(*   "formats"          : the result's text is the library's formatting    *)
(***************************************************************************)
LibFailures == {"importFails", "callThrows", "noFormatFunction", "noText"}
LibBehaviours == LibFailures \cup {"formats"}

\* The library's formatting of s.  What the library computes is beyond the
\* repository: the model takes a text of its own for every s, distinct from
\* every text the tool computes, by putting a mark before s.
PmtsfText(s) == <<"PMTSF">> \o s

beautifyWithPMTSF(s, l) ==
  IF s = <<>> THEN <<>>
  ELSE IF l \in {"importFails", "callThrows"} THEN formatSql(s)
  ELSE IF l = "noFormatFunction" THEN s
  ELSE IF l = "noText" THEN s
  ELSE PmtsfText(s)

(***************************************************************************)
(* escapeHtml: five global replacements, one after the other.              *)
(***************************************************************************)
\* s.replace(/c/g, rep) for a one-character pattern c
RECURSIVE ReplaceChar(_, _, _)
ReplaceChar(s, c, rep) ==
  IF s = <<>> THEN <<>>
  ELSE (IF Head(s) = c THEN rep ELSE <<Head(s)>>) \o ReplaceChar(Tail(s), c, rep)

AmpEntity ==
  <<"&", "a", "m", "p", ";">>
LtEntity ==
  <<"&", "l", "t", ";">>
GtEntity ==
  <<"&", "g", "t", ";">>
QuotEntity ==
  <<"&", "q", "u", "o", "t", ";">>
AposEntity ==
  <<"&", "#", "3", "9", ";">>

\* A plausible slip: the single quote left as it is.
escapeHtmlNoApos(s) ==
  ReplaceChar(
    ReplaceChar(
      ReplaceChar(
        ReplaceChar(s, "&", AmpEntity),
        "<", LtEntity),
      ">", GtEntity),
    DQ, QuotEntity)

escapeHtml(s) ==
  ReplaceChar(
    ReplaceChar(
      ReplaceChar(
        ReplaceChar(
          ReplaceChar(s, "&", AmpEntity),
          "<", LtEntity),
        ">", GtEntity),
      DQ, QuotEntity),
    SQ, AposEntity)

(***************************************************************************)
(* highlightSqlHtml.                                                       *)
(***************************************************************************)
KeywordOpen ==
  <<"<", "s", "p", "a", "n", SP, "c", "l", "a", "s", "s", "=", "\"", "t",
    "e", "x", "t", "-", "c", "o", "d", "e", "-", "k", "e", "y", "w", "o",
    "r", "d", SP, "f", "o", "n", "t", "-", "m", "e", "d", "i", "u", "m",
    "\"", ">">>
AccentOpen ==
  <<"<", "s", "p", "a", "n", SP, "c", "l", "a", "s", "s", "=", "\"", "t",
    "e", "x", "t", "-", "a", "c", "c", "e", "n", "t", "-", "f", "o", "r",
    "e", "g", "r", "o", "u", "n", "d", "\"", ">">>
MutedOpen ==
  <<"<", "s", "p", "a", "n", SP, "c", "l", "a", "s", "s", "=", "\"", "t",
    "e", "x", "t", "-", "m", "u", "t", "e", "d", "-", "f", "o", "r", "e",
    "g", "r", "o", "u", "n", "d", "\"", ">">>
NumberOpen ==
  <<"<", "s", "p", "a", "n", SP, "c", "l", "a", "s", "s", "=", "\"", "t",
    "e", "x", "t", "-", "s", "e", "c", "o", "n", "d", "a", "r", "y", "-",
    "f", "o", "r", "e", "g", "r", "o", "u", "n", "d", "\"", ">">>
SpanClose ==
  <<"<", "/", "s", "p", "a", "n", ">">>

HighlightInit == [i |-> 1, inSingle |-> FALSE, inDouble |-> FALSE, inBack |-> FALSE,
                  out |-> <<>>, word |-> <<>>]

\* flushWord of highlightSqlHtml
HighlightFlushWord(st) ==
  IF st.word = <<>> THEN st
  ELSE IF toLowerCase(st.word) \in keywords
  THEN [st EXCEPT !.out = @ \o KeywordOpen \o escapeHtml(toUpperCase(st.word)) \o SpanClose,
                  !.word = <<>>]
  ELSE [st EXCEPT !.out = @ \o escapeHtml(st.word), !.word = <<>>]

\* The body of the inner while loop of a quoted region, at the character the
\* loop condition has just advanced to.
HighlightQuotedBody(s, st, q, flag) ==
  LET c == s[st.i]
      n == At(s, st.i + 1)
  IN IF c = q /\ n = q
     THEN [st EXCEPT !.out = @ \o escapeHtml(<<q, q>>), !.i = @ + 1]
     ELSE IF c = q
     THEN [st EXCEPT !.out = @ \o escapeHtml(<<q>>), !.i = @ + 1, ![flag] = FALSE]
     ELSE [st EXCEPT !.out = @ \o escapeHtml(<<c>>)]

\* while (inX && ++i < input.length) { ... }: the increment belongs to the
\* loop condition and happens also when the condition then fails.
RECURSIVE HighlightQuoted(_, _, _, _)
HighlightQuoted(s, st, q, flag) ==
  IF st[flag]
  THEN LET adv == [st EXCEPT !.i = @ + 1]
       IN IF adv.i <= Len(s)
          THEN HighlightQuoted(s, HighlightQuotedBody(s, adv, q, flag), q, flag)
          ELSE adv
  ELSE st

\* The quote branch the for loop takes at st, as <<quote character, flag,
\* opening tag>>; <<>> if it takes none.
HighlightBranch(s, st) ==
  LET ch == s[st.i]
  IN IF ~st.inDouble /\ ~st.inBack /\ ch = SQ THEN <<SQ, "inSingle", AccentOpen>>
     ELSE IF ~st.inSingle /\ ~st.inBack /\ ch = DQ THEN <<DQ, "inDouble", MutedOpen>>
     ELSE IF ~st.inSingle /\ ~st.inDouble /\ ch = BQ THEN <<BQ, "inBack", MutedOpen>>
     ELSE <<>>

\* The head of a quote branch: flushWord, the opening tag and quote, the
\* toggle.
HighlightOpen(st, q, flag, open) ==
  LET f == HighlightFlushWord(st)
  IN [f EXCEPT !.out = @ \o open \o escapeHtml(<<q>>), ![flag] = ~@]

\* The whole quote branch: the head, the inner loop, the closing tag.
HighlightRegion(s, st, q, flag, open) ==
  [HighlightQuoted(s, HighlightOpen(st, q, flag, open), q, flag)
     EXCEPT !.out = @ \o SpanClose]

\* let j = i + 1; while (j < input.length && /[0-9_.]/.test(input[j])) j++
RECURSIVE NumberEnd(_, _)
NumberEnd(s, j) ==
  IF j <= Len(s) /\ (IsDigit(s[j]) \/ s[j] = "_" \/ s[j] = ".")
  THEN NumberEnd(s, j + 1) ELSE j

\* The body of the for loop, before the i++ of the loop header.
HighlightBody(s, st) ==
  LET ch == s[st.i]
      next == At(s, st.i + 1)
      b == HighlightBranch(s, st)
  IN IF b # <<>>
     THEN HighlightRegion(s, st, b[1], b[2], b[3])
     ELSE IF ~st.inSingle /\ ~st.inDouble /\ ~st.inBack
     THEN IF IsDigit(ch) \/ (ch = "." /\ IsDigit(next))
          THEN LET f == HighlightFlushWord(st)
                   j == NumberEnd(s, st.i + 1)
               IN [f EXCEPT !.out = @ \o NumberOpen
                                      \o escapeHtml(SubSeq(s, st.i, j - 1))
                                      \o SpanClose,
                            !.i = j - 1]
          ELSE IF IsLetter(ch) \/ ch = "_"
          THEN [st EXCEPT !.word = Append(@, ch)]
          ELSE LET f == HighlightFlushWord(st)
               IN [f EXCEPT !.out = @ \o escapeHtml(<<ch>>)]
     ELSE [st EXCEPT !.out = @ \o escapeHtml(<<ch>>)]

\* One iteration of the for loop: the body, then i++.
HighlightStep(s, st) == [HighlightBody(s, st) EXCEPT !.i = @ + 1]

RECURSIVE HighlightLoop(_, _)
HighlightLoop(s, st) ==
  IF st.i <= Len(s) THEN HighlightLoop(s, HighlightStep(s, st)) ELSE st

highlightSqlHtml(s) ==
  IF s = <<>> THEN <<>> ELSE HighlightFlushWord(HighlightLoop(s, HighlightInit)).out


(***************************************************************************)
(* The component's state after construction (the useState initial values), *)
(* and the texts its text areas hold.  A JSON text is modelled by what     *)
(* JSON.parse makes of it.                                                 *)
(***************************************************************************)
\* What JSON.parse makes of a text: an array with its items, or another
\* value.
ArrayDoc(items) == [isArray |-> TRUE, items |-> items, other |-> UndefinedV]
OtherDoc(v) == [isArray |-> FALSE, items |-> <<>>, other |-> v]

\* A text that JSON.parse rejects; the empty text is one.
NotJson == OtherDoc(Val("invalid", FALSE, 0, FALSE, <<>>))

\* '["784", 123, 456]'
InitialParams == ArrayDoc(<<StrV(<<"7", "8", "4">>), NumV(123), NumV(456)>>)

\* The text of the JSON text area: k is "empty" for the empty text,
\* "malformed" for a text JSON.parse rejects, "null" for the text null,
\* "scalar" for a number, string or boolean, "object" for an object, whose
\* properties sql and values are then the other two fields (UndefinedV for
\* a property the object lacks).
JsonText(k, sqlField, valuesField) == [k |-> k, sql |-> sqlField, values |-> valuesField]
EmptyJson == JsonText("empty", UndefinedV, OtherDoc(UndefinedV))

UiInit ==
  /\ lib = "formats"
  /\ jsonInput = EmptyJson
  /\ paramsText = InitialParams
  /\ merged = <<>>
  /\ formatted = <<>>
  /\ error = NoError
  /\ formatMode = "beautify"
  /\ pending = <<>>

(***************************************************************************)
(* The state machine: the inputs are the SQL text and the decoded          *)
(* parameter array; an operation applies one function of the tool to them  *)
(* and leaves its result in res.                                           *)
(***************************************************************************)
MergeAlphabet == {SQ, DQ, BQ, QM, "a"}
MergeValues == {NullV, NumV(12), StrV(<<QM, SQ>>), StrV(<<DQ, BQ>>)}

NoResult == <<>>

Init ==
  /\ sql \in TextsUpTo(MergeAlphabet, MaxLen)
  /\ params = <<>>
  /\ op = "idle"
  /\ res = NoResult
  /\ UiInit

\* const placeholderCount = useMemo(() => countPlaceholders(sql), [sql])
Count ==
  /\ op = "idle"
  /\ op' = "count"
  /\ res' = countPlaceholders(sql)
  /\ UNCHANGED <<sql, params, uiVars>>

\* onMerge with a parameter text that decodes to the array ps
Merge ==
  /\ op = "idle"
  /\ \E ps \in ListsUpTo(MergeValues, MaxParams) :
       /\ params' = ps
       /\ res' = mergeSql(sql, ps)
  /\ op' = "merge"
  /\ UNCHANGED <<sql, uiVars>>

Next == Count \/ Merge

Spec == Init /\ [][Next]_vars

(***************************************************************************)
(* The value escaper applied to one value.                                 *)
(***************************************************************************)
EscapeAlphabet == {SQ, DQ, BQ, "a"}
OReilly == <<"O", SQ, "R", "e", "i", "l", "l", "y">>
EscapeValues ==
  {NullV, UndefinedV, BoolV(TRUE), BoolV(FALSE), NaNV,
   Val("number", FALSE, 0, FALSE, <<"I", "n", "f", "i", "n", "i", "t", "y">>),
   NumV(0), NumV(7), NumV(12), NumV(-3), NumV(105), NumV(784), StrV(OReilly)}
  \cup {StrV(s) : s \in TextsUpTo(EscapeAlphabet, MaxStrLen)}
  \cup {ObjV(s) : s \in TextsUpTo(EscapeAlphabet, MaxStrLen)}

InitEscape ==
  /\ sql = <<>>
  /\ params = <<>>
  /\ op = "idle"
  /\ res = NoResult
  /\ UiInit

\* escapeSqlValue(v), as mergeSql calls it for one parameter
Escape ==
  /\ op = "idle"
  /\ \E v \in EscapeValues :
       /\ params' = <<v>>
       /\ res' = escapeSqlValue(v)
  /\ op' = "escape"
  /\ UNCHANGED <<sql, uiVars>>

NextEscape == Escape

SpecEscape == InitEscape /\ [][NextEscape]_vars

(***************************************************************************)
(* The minifier applied to a text.                                         *)
(***************************************************************************)
MinifyAlphabet == {SQ, DQ, BQ, SP, NL, "(", ")", ",", "a"}

\* SELECT  a ,  b  FROM t
ScenarioF == <<"S", "E", "L", "E", "C", "T", SP, SP, "a", SP, ",", SP, SP, "b", SP, SP, "F", "R", "O", "M", SP, "t">>

InitMinify ==
  /\ sql \in TextsUpTo(MinifyAlphabet, MaxMinLen) \cup {ScenarioF}
  /\ params = <<>>
  /\ op = "idle"
  /\ res = NoResult
  /\ UiInit

\* updateFormatted in minify mode: setFormatted(minifySqlPreserveStrings(text))
Minify ==
  /\ op = "idle"
  /\ op' = "minify"
  /\ res' = minifySqlPreserveStrings(sql)
  /\ UNCHANGED <<sql, params, uiVars>>

NextMinify == Minify

SpecMinify == InitMinify /\ [][NextMinify]_vars

(***************************************************************************)
(* The highlighter applied to a text.                                      *)
(***************************************************************************)
MaxHlLen == 4
HighlightAlphabet == {SQ, DQ, "<", "&", "1", "o", "r"}

InitHighlight ==
  /\ sql \in TextsUpTo(HighlightAlphabet, MaxHlLen)
  /\ params = <<>>
  /\ op = "idle"
  /\ res = NoResult
  /\ UiInit

\* const highlighted = useMemo(() => highlightSqlHtml(formatted), [formatted])
Highlight ==
  /\ op = "idle"
  /\ op' = "highlight"
  /\ res' = highlightSqlHtml(sql)
  /\ UNCHANGED <<sql, params, uiVars>>

NextHighlight == Highlight

SpecHighlight == InitHighlight /\ [][NextHighlight]_vars

(***************************************************************************)
(* Properties of the counter and the merger.                               *)
(***************************************************************************)
Prefix(s, i) == SubSeq(s, 1, i)

Min(a, b) == IF a <= b THEN a ELSE b

\* The positions the counter recognises as unquoted placeholders: those of
\* the iterations that raise the count.
RECURSIVE CountPlacesFrom(_, _)
CountPlacesFrom(s, st) ==
  IF st.i <= Len(s)
  THEN LET nx == CountStep(s, st)
       IN (IF nx.count > st.count THEN {st.i} ELSE {}) \cup CountPlacesFrom(s, nx)
  ELSE {}

CountPlaces(s) == CountPlacesFrom(s, CountInit)

CounterPlace(s, i) == i \in CountPlaces(s)

\* The positions the merger recognises as unquoted placeholders, given enough
\* parameters: those of the iterations that consume one.
RECURSIVE MergePlacesFrom(_, _, _)
MergePlacesFrom(s, ps, st) ==
  IF st.i <= Len(s)
  THEN LET nx == MergeStep(s, ps, st)
       IN (IF nx.pi > st.pi THEN {st.i} ELSE {}) \cup MergePlacesFrom(s, ps, nx)
  ELSE {}

MergePlaces(s, ps) == MergePlacesFrom(s, ps, MergeInit)

\* The number of placeholders before position i: the index k, from 0, of a
\* placeholder at i.
PlaceIndex(places, i) == Cardinality({j \in places : j < i})

\* C1: with at least as many parameters as countPlaceholders(sql), the merger
\* consumes exactly countPlaceholders(sql) of them, and it consumes one at
\* exactly the positions at which the counter counts one.
C1_CounterAgreesWithMerger ==
  (op = "merge" /\ Len(params) >= countPlaceholders(sql)) =>
    /\ res.usedCount = countPlaceholders(sql)
    /\ MergePlaces(sql, params) = CountPlaces(sql)

\* A merge of a text that holds a quoted `?` and an unquoted one, with enough
\* parameters.
C1_Witness ==
  /\ op = "merge"
  /\ Len(params) >= countPlaceholders(sql)
  /\ res.usedCount >= 1
  /\ \E i \in 1..Len(sql) : sql[i] = QM /\ ~CounterPlace(sql, i)

\* C2: mergeSql returns a result text in every case, and the error depends
\* only on n = Len(params) and c = countPlaceholders(sql): too many for n > c,
\* not enough for n < c, none for n = c; usedCount = min(n, c) and
\* placeholderCount = c.
C2_ErrorByCounts ==
  op = "merge" =>
    LET n == Len(params)
        c == countPlaceholders(sql)
    IN /\ DOMAIN res = {"result", "error", "usedCount", "placeholderCount"}
       /\ res.result \in Seq(STRING)
       /\ res.usedCount = Min(n, c)
       /\ res.placeholderCount = c
       /\ n > c => res.error = TooMany(n, c)
       /\ n < c => res.error = NotEnough(c, n)
       /\ n = c => res.error = NoError
       /\ res.error \in {NoError, TooMany(n, res.usedCount), NotEnough(c, n)}

\* Merges with too many parameters and with too few are both reached; this
\* one has too few and at least one parameter.
C2_Witness ==
  /\ op = "merge"
  /\ Len(params) >= 1
  /\ res.error = NotEnough(countPlaceholders(sql), Len(params))
  /\ res.usedCount = Len(params)

C2_WitnessTooMany ==
  /\ op = "merge"
  /\ res.usedCount >= 1
  /\ res.error = TooMany(Len(params), res.usedCount)

\* What the k-th placeholder (k from 0) becomes.
Substitute(ps, k) == IF k < Len(ps) THEN escapeSqlValue(ps[k + 1]) ELSE <<QM>>

\* The text that position-wise substitution gives for the first i characters
\* of s: a placeholder the counter recognises becomes its substitute, every
\* other character stays.
RECURSIVE SubstitutedUpTo(_, _, _, _)
SubstitutedUpTo(s, ps, places, i) ==
  IF i = 0 THEN <<>>
  ELSE SubstitutedUpTo(s, ps, places, i - 1) \o
       (IF i \in places THEN Substitute(ps, PlaceIndex(places, i)) ELSE <<s[i]>>)

Substituted(s, ps) == SubstitutedUpTo(s, ps, CountPlaces(s), Len(s))

\* C3: the result of mergeSql is the text with the k-th unquoted placeholder
\* replaced by the escaped params[k] when k < Len(params), left as `?`
\* otherwise, and every other character copied unchanged and in order, to
\* the end of the text.
C3_PositionalSubstitution ==
  op = "merge" => res.result = Substituted(sql, params)

\* A merge that fills one placeholder and leaves a later one, in a text that
\* also holds a quoted region.
C3_Witness ==
  /\ op = "merge"
  /\ res.usedCount >= 1
  /\ res.usedCount < res.placeholderCount
  /\ \E i \in 1..Len(sql) : sql[i] \in {SQ, DQ, BQ}

\* C4: merging a text of N placeholders with exactly N parameters gives no
\* error and a result in which the counter finds no placeholder.
C4_MergeRoundTrip ==
  (op = "merge" /\ Len(params) = countPlaceholders(sql)) =>
    /\ res.error = NoError
    /\ countPlaceholders(res.result) = 0

\* An exact merge of a string holding `?` and `'` into a placeholder written
\* directly after a quoted region.
C4_Witness ==
  /\ op = "merge"
  /\ Len(params) = countPlaceholders(sql)
  /\ \E i \in 2..Len(sql) :
       /\ CounterPlace(sql, i)
       /\ sql[i - 1] \in {SQ, DQ, BQ}
       /\ params[PlaceIndex(CountPlaces(sql), i) + 1] = StrV(<<QM, SQ>>)

(***************************************************************************)
(* Re-scanning a text with the quote tracker of countPlaceholders.         *)
(***************************************************************************)
\* The loop states of countPlaceholders on s, one per iteration, and the
\* state after the last.
RECURSIVE CountTrace(_, _)
CountTrace(s, st) ==
  IF st.i <= Len(s) THEN <<st>> \o CountTrace(s, CountStep(s, st)) ELSE <<st>>

Unquoted(st) == ~st.inSingle /\ ~st.inDouble /\ ~st.inBack

\* The single-quoted regions the scan of s finds, each as <<first, last>>:
\* the positions of the opening and of the closing quote.
SingleRegions(s) ==
  LET tr == CountTrace(s, CountInit)
  IN {<<tr[j].i, tr[k].i>> : <<j, k>> \in
        {jk \in (1..Len(tr) - 1) \X (1..Len(tr) - 1) :
           /\ jk[1] < jk[2]
           /\ Unquoted(tr[jk[1]]) /\ tr[jk[1] + 1].inSingle
           /\ tr[jk[2]].inSingle /\ ~tr[jk[2] + 1].inSingle
           /\ \A m \in jk[1] + 1..jk[2] : tr[m].inSingle}}

\* s with each '' replaced by '
RECURSIVE UndoDoubling(_)
UndoDoubling(s) ==
  IF s = <<>> THEN <<>>
  ELSE IF Len(s) >= 2 /\ s[1] = SQ /\ s[2] = SQ
  THEN <<SQ>> \o UndoDoubling(SubSeq(s, 3, Len(s)))
  ELSE <<Head(s)>> \o UndoDoubling(Tail(s))

\* The position in the merged text at which the substitute of the placeholder
\* at position i of s begins.
LiteralStart(s, ps, i) == Len(MergeLoop(Prefix(s, i - 1), ps, MergeInit).out) + 1

\* The placeholders of s that receive a string parameter, each with the
\* parameter and the position at which its literal begins in the merged text.
StringMerges(s, ps) ==
  LET places == CountPlaces(s)
  IN {[at |-> i, v |-> ps[PlaceIndex(places, i) + 1], first |-> LiteralStart(s, ps, i)] :
        i \in {j \in places : /\ PlaceIndex(places, j) < Len(ps)
                              /\ ps[PlaceIndex(places, j) + 1].t = "string"}}

LiteralEnd(m) == m.first + Len(escapeSqlValue(m.v)) - 1

\* Among the single-quoted regions regs of text r, one begins at position
\* first and holds v once the doubling is undone.
RegionHolds(r, regs, first, v) ==
  \E reg \in regs :
    /\ reg[1] = first
    /\ UndoDoubling(SubSeq(r, first + 1, reg[2] - 1)) = v

\* C5 as stated: every string value merged into any unquoted placeholder is
\* found again by the re-scan as the content of a single-quoted region that
\* begins where the placeholder was.
C5_FidelityEverywhere ==
  op = "merge" =>
    LET regs == SingleRegions(res.result)
    IN \A m \in StringMerges(sql, params) :
         RegionHolds(res.result, regs, m.first, m.v.s)

\* The literal of merge m touches no other single quote of the merged text r.
NoQuoteBeside(r, m) == At(r, m.first - 1) # SQ /\ At(r, LiteralEnd(m) + 1) # SQ

\* C5 as amended: the same, for a literal that is not written directly beside
\* another single quote in the merged text; the region then ends with the
\* literal.
C5_FidelityApart ==
  op = "merge" =>
    LET regs == SingleRegions(res.result)
    IN \A m \in StringMerges(sql, params) :
         NoQuoteBeside(res.result, m) =>
           /\ RegionHolds(res.result, regs, m.first, m.v.s)
           /\ <<m.first, LiteralEnd(m)>> \in regs

\* A string holding a quote merged into a placeholder that stands between
\* other characters, none of them a single quote.
C5_Witness ==
  /\ op = "merge"
  /\ \E m \in StringMerges(sql, params) :
       /\ m.at > 1 /\ m.at < Len(sql)
       /\ NoQuoteBeside(res.result, m)
       /\ m.v = StrV(<<QM, SQ>>)

(***************************************************************************)
(* Properties of the value escaper.                                        *)
(***************************************************************************)
Occurrences(s, c) == Cardinality({i \in 1..Len(s) : s[i] = c})

Without(s, c) == SelectSeq(s, LAMBDA x : x # c)

DigitValue(c) == CHOOSE d \in 0..9 : Digit(d) = c

\* The number a decimal text denotes.
RECURSIVE TextValue(_)
TextValue(s) ==
  IF s = <<>> THEN 0
  ELSE IF Head(s) = "-" THEN 0 - TextValue(Tail(s))
  ELSE 10 * TextValue(SubSeq(s, 1, Len(s) - 1)) + DigitValue(s[Len(s)])

DecimalChars == {Digit(d) : d \in 0..9} \cup {"-"}

\* out is text wrapped in one pair of single quotes, with every single quote
\* of text doubled and nothing else changed.
QuotedLiteral(out, text) ==
  /\ Len(out) = Len(text) + Occurrences(text, SQ) + 2
  /\ out[1] = SQ /\ out[Len(out)] = SQ
  /\ LET inner == SubSeq(out, 2, Len(out) - 1)
     IN /\ UndoDoubling(inner) = text
        /\ Occurrences(inner, SQ) = 2 * Occurrences(text, SQ)
        /\ Without(inner, SQ) = Without(text, SQ)

\* C6: escapeSqlValue gives NULL for null and undefined, the unquoted decimal
\* text for a finite number, TRUE or FALSE for a boolean, and for every other
\* value its text with each single quote doubled, wrapped in single quotes,
\* double quotes and back-ticks untouched; O'Reilly gives 'O''Reilly'.
C6_EscapeByVariant ==
  op = "escape" =>
    LET v == params[1]
    IN /\ v.t \in {"null", "undefined"} => res = <<"N", "U", "L", "L">>
       /\ (v.t = "number" /\ v.fin) =>
            /\ res # <<>>
            /\ \A i \in 1..Len(res) : res[i] \in DecimalChars
            /\ TextValue(res) = v.n
       /\ v.t = "boolean" =>
            res = (IF v.b THEN <<"T", "R", "U", "E">> ELSE <<"F", "A", "L", "S", "E">>)
       /\ (v.t \in {"string", "object"} \/ (v.t = "number" /\ ~v.fin)) =>
            QuotedLiteral(res, v.s)
       /\ v = StrV(OReilly) =>
            res = <<SQ, "O", SQ, SQ, "R", "e", "i", "l", "l", "y", SQ>>

\* The escaper applied to a string that holds two single quotes, a double
\* quote between them.
C6_Witness ==
  /\ op = "escape"
  /\ params[1] = StrV(<<SQ, DQ, SQ>>)
  /\ res = <<SQ, SQ, SQ, DQ, SQ, SQ, SQ>>

(***************************************************************************)
(* Properties of the minifier.                                             *)
(***************************************************************************)
\* SELECT a, b FROM t
ScenarioFClaimed == <<"S", "E", "L", "E", "C", "T", SP, "a", ",", SP, "b", SP, "F", "R", "O", "M", SP, "t">>

\* SELECT a,b FROM t
ScenarioFActual == <<"S", "E", "L", "E", "C", "T", SP, "a", ",", "b", SP, "F", "R", "O", "M", SP, "t">>

\* Position p of text s lies outside every quoted region, by the quote
\* tracker of countPlaceholders.
UnquotedAt(s, p) ==
  LET tr == CountTrace(s, CountInit)
  IN \E j \in 1..Len(tr) - 1 :
       /\ tr[j].i = p
       /\ Unquoted(tr[j])
       /\ s[p] \notin {SQ, DQ, BQ}

UnquotedSpaceAt(s, p) == p \in 1..Len(s) /\ IsSpace(s[p]) /\ UnquotedAt(s, p)

\* C7 as stated: Scenario F gives SELECT a, b FROM t, one space kept after
\* the comma.
C7_ScenarioFKeepsSpace ==
  (op = "minify" /\ sql = ScenarioF) => res = ScenarioFClaimed

\* C7 as amended: the minifier removes the unquoted white space before a
\* comma and after a comma alike, so that Scenario F gives SELECT a,b FROM t.
C7_NoSpaceAroundComma ==
  op = "minify" =>
    /\ \A p \in 1..Len(res) :
         (res[p] = "," /\ UnquotedAt(res, p)) =>
           ~UnquotedSpaceAt(res, p - 1) /\ ~UnquotedSpaceAt(res, p + 1)
    /\ sql = ScenarioF => res = ScenarioFActual

\* Scenario F minified.
C7_Witness ==
  /\ op = "minify"
  /\ sql = ScenarioF
  /\ res = ScenarioFActual

\* The characters of s other than unquoted white space, in order.
RECURSIVE KeptUpTo(_, _)
KeptUpTo(s, p) ==
  IF p = 0 THEN <<>>
  ELSE IF UnquotedSpaceAt(s, p) THEN KeptUpTo(s, p - 1)
  ELSE Append(KeptUpTo(s, p - 1), s[p])

Kept(s) == KeptUpTo(s, Len(s))

\* The places of the unquoted white space of s: m is a gap when white space
\* stands after the m-th kept character.
Gaps(s) == {Len(KeptUpTo(s, p)) : p \in {q \in 1..Len(s) : UnquotedSpaceAt(s, q)}}

\* The gaps of the input that are to show as one space: not at either edge,
\* not directly after `(` or `,`, not directly before `)` or `,`.
SpacedGaps(s) ==
  {m \in Gaps(s) :
     /\ m >= 1 /\ m < Len(Kept(s))
     /\ Kept(s)[m] \notin {"(", ","}
     /\ Kept(s)[m + 1] \notin {")", ","}}

\* C8: outside quoted regions the minified text holds no white space but
\* single spaces, none directly after `(` or `,` nor directly before `)` or
\* `,`; it has no leading or trailing white space; and every other unquoted
\* white-space run of the input shows as exactly one space.
C8_MinifiedWhitespace ==
  op = "minify" =>
    /\ \A p \in 1..Len(res) :
         UnquotedSpaceAt(res, p) =>
           /\ res[p] = SP
           /\ ~UnquotedSpaceAt(res, p + 1)
           /\ At(res, p - 1) \notin {"(", ","}
           /\ At(res, p + 1) \notin {")", ","}
    /\ res # <<>> => ~IsSpace(res[1]) /\ ~IsSpace(res[Len(res)])
    /\ Gaps(res) = SpacedGaps(sql)

\* A text with a run of white space that is removed, a run that is kept as
\* one space, and a line break among its white space.
C8_Witness ==
  /\ op = "minify"
  /\ SpacedGaps(sql) # {}
  /\ Gaps(sql) # SpacedGaps(sql)
  /\ \E p \in 1..Len(sql) : sql[p] = NL /\ UnquotedSpaceAt(sql, p)
  /\ Len(res) < Len(sql)

\* C9: minifying a minified text changes nothing.
C9_MinifyIdempotent ==
  op = "minify" => minifySqlPreserveStrings(res) = res

\* A minified text that differs from its input and still holds a space.
C9_Witness ==
  /\ op = "minify"
  /\ res # sql
  /\ \E p \in 1..Len(res) : UnquotedSpaceAt(res, p)
  /\ \E p \in 1..Len(res) : res[p] \in {"(", ")", ","}

\* The characters of s that lie in quoted regions, delimiters and escape
\* pairs included, in order.
RECURSIVE QuotedUpTo(_, _)
QuotedUpTo(s, p) ==
  IF p = 0 THEN <<>>
  ELSE IF UnquotedAt(s, p) THEN QuotedUpTo(s, p - 1)
  ELSE Append(QuotedUpTo(s, p - 1), s[p])

QuotedPart(s) == QuotedUpTo(s, Len(s))

\* C10: every character of a quoted region of the input, terminated or not,
\* appears unchanged and in order in the minified text.
C10_QuotedPreserved ==
  op = "minify" => QuotedPart(res) = QuotedPart(sql)

(***************************************************************************)
(* The highlighter's output as HTML: its own markup, and the text a        *)
(* browser shows for it.                                                   *)
(***************************************************************************)
HtmlSpecial == {"<", ">", "&", DQ, SQ}
SpanTags == {KeywordOpen, AccentOpen, MutedOpen, NumberOpen, SpanClose}
Entities == {AmpEntity, LtEntity, GtEntity, QuotEntity, AposEntity}

\* The character an entity reference stands for.
EntityChar(e) ==
  IF e = AmpEntity THEN "&"
  ELSE IF e = LtEntity THEN "<"
  ELSE IF e = GtEntity THEN ">"
  ELSE IF e = QuotEntity THEN DQ
  ELSE SQ

\* From position i on, t is made of span tags, entity references and
\* characters that are not special in HTML.
RECURSIVE OwnMarkupFrom(_, _)
OwnMarkupFrom(t, i) ==
  IF i > Len(t) THEN TRUE
  ELSE IF \E m \in SpanTags : HasAt(t, i, m)
  THEN OwnMarkupFrom(t, i + Len(CHOOSE m \in SpanTags : HasAt(t, i, m)))
  ELSE IF \E e \in Entities : HasAt(t, i, e)
  THEN OwnMarkupFrom(t, i + Len(CHOOSE e \in Entities : HasAt(t, i, e)))
  ELSE t[i] \notin HtmlSpecial /\ OwnMarkupFrom(t, i + 1)

\* The text of t from position i on: span tags removed, entity references
\* decoded.
RECURSIVE TextFrom(_, _)
TextFrom(t, i) ==
  IF i > Len(t) THEN <<>>
  ELSE IF \E m \in SpanTags : HasAt(t, i, m)
  THEN TextFrom(t, i + Len(CHOOSE m \in SpanTags : HasAt(t, i, m)))
  ELSE IF \E e \in Entities : HasAt(t, i, e)
  THEN LET e == CHOOSE x \in Entities : HasAt(t, i, x)
       IN <<EntityChar(e)>> \o TextFrom(t, i + Len(e))
  ELSE <<t[i]>> \o TextFrom(t, i + 1)

HtmlText(t) == TextFrom(t, 1)

\* a is b with some characters left out
RECURSIVE IsSubsequence(_, _)
IsSubsequence(a, b) ==
  IF a = <<>> THEN TRUE
  ELSE IF b = <<>> THEN FALSE
  ELSE IF Head(a) = Head(b) THEN IsSubsequence(Tail(a), Tail(b))
  ELSE IsSubsequence(a, Tail(b))

\* C11: the highlighter's output holds the characters < > & " ' only in the
\* span tags and entity references it generates itself, and each entity
\* reference stands for a character of the input: the text of the output is
\* made of characters of the input, in their order, the case of letters aside.
C11_OutputEscaped ==
  op = "highlight" =>
    /\ OwnMarkupFrom(res, 1)
    /\ IsSubsequence(toUpperCase(HtmlText(res)), toUpperCase(sql))

\* A text with <, & and both quotes has been highlighted: each of the four
\* is in the output as its entity reference.
C11_Witness ==
  /\ op = "highlight"
  /\ sql = <<"<", "&", SQ, DQ>>
  /\ res = LtEntity \o AmpEntity \o AccentOpen \o AposEntity \o QuotEntity \o SpanClose

(***************************************************************************)
(* The text the highlighter is to show for an input.                       *)
(***************************************************************************)
\* /[A-Za-z_]/.test(ch): a character of a word of the highlighter
IsWordChar(ch) == IsLetter(ch) \/ ch = "_"

\* The first and the last position of the word of s that position p is in.
RECURSIVE WordStart(_, _)
WordStart(s, p) == IF p > 1 /\ IsWordChar(s[p - 1]) THEN WordStart(s, p - 1) ELSE p

RECURSIVE WordEnd(_, _)
WordEnd(s, p) == IF p < Len(s) /\ IsWordChar(s[p + 1]) THEN WordEnd(s, p + 1) ELSE p

\* Position p of s is in a keyword outside every quoted region.
InUnquotedKeyword(s, p) ==
  /\ IsWordChar(s[p])
  /\ UnquotedAt(s, p)
  /\ toLowerCase(SubSeq(s, WordStart(s, p), WordEnd(s, p))) \in keywords

\* s with its unquoted keywords in upper case
KeywordsRaised(s) ==
  [p \in 1..Len(s) |-> IF InUnquotedKeyword(s, p) THEN UpperChar(s[p]) ELSE s[p]]

\* C12: with its span tags removed and its entity references decoded, the
\* highlighter's output is the input character for character, unquoted
\* keywords in upper case; no character is lost, the one after a closing
\* quote included.
C12_TextPreserved ==
  op = "highlight" => HtmlText(res) = KeywordsRaised(sql)

(***************************************************************************)
(* The scan of each of the five scanners, state by state: the loop state   *)
(* at the start of every iteration, of the inner loops too, and the state  *)
(* the scan ends in.                                                       *)
(***************************************************************************)
MaxScanLen == 4
ScanAlphabet == {SQ, DQ, BQ, QM, "a"}
ScanValues == {NumV(7), StrV(<<SQ>>)}

\* The position and the quote flags of a loop state.
Flags(st) == [i |-> st.i, inSingle |-> st.inSingle, inDouble |-> st.inDouble,
              inBack |-> st.inBack]

FlagsOf(tr) == [j \in 1..Len(tr) |-> Flags(tr[j])]

RECURSIVE MergeTrace(_, _, _)
MergeTrace(s, ps, st) ==
  IF st.i <= Len(s) THEN <<st>> \o MergeTrace(s, ps, MergeStep(s, ps, st)) ELSE <<st>>

RECURSIVE FormatTrace(_, _)
FormatTrace(s, st) ==
  IF st.i <= Len(s) THEN <<st>> \o FormatTrace(s, FormatStep(s, st)) ELSE <<st>>

\* The states at the start of the iterations of the minifier's inner loop.
RECURSIVE MinifyQuotedTrace(_, _, _, _)
MinifyQuotedTrace(s, st, q, flag) ==
  IF st.i <= Len(s) /\ st[flag]
  THEN <<st>> \o MinifyQuotedTrace(s, MinifyQuotedBody(s, st, q, flag), q, flag)
  ELSE <<>>

RECURSIVE MinifyTrace(_, _)
MinifyTrace(s, st) ==
  IF st.i <= Len(s)
  THEN LET b == MinifyBranch(s, st)
       IN <<st>>
          \o (IF b # <<>>
              THEN MinifyQuotedTrace(s, MinifyOpen(st, b[1], b[2]), b[1], b[2])
              ELSE <<>>)
          \o MinifyTrace(s, MinifyStep(s, st))
  ELSE <<st>>

\* The states of the highlighter's inner loop, each taken when the loop
\* condition has advanced i to the character the body reads.
RECURSIVE HighlightQuotedTrace(_, _, _, _)
HighlightQuotedTrace(s, st, q, flag) ==
  IF st[flag] /\ st.i + 1 <= Len(s)
  THEN LET adv == [st EXCEPT !.i = @ + 1]
       IN <<adv>> \o HighlightQuotedTrace(s, HighlightQuotedBody(s, adv, q, flag), q, flag)
  ELSE <<>>

RECURSIVE HighlightTrace(_, _)
HighlightTrace(s, st) ==
  IF st.i <= Len(s)
  THEN LET b == HighlightBranch(s, st)
       IN <<st>>
          \o (IF b # <<>>
              THEN HighlightQuotedTrace(s, HighlightOpen(st, b[1], b[2], b[3]), b[1], b[2])
              ELSE <<>>)
          \o HighlightTrace(s, HighlightStep(s, st))
  ELSE <<st>>

InitScan ==
  /\ sql \in TextsUpTo(ScanAlphabet, MaxScanLen)
  /\ params = <<>>
  /\ op = "idle"
  /\ res = NoResult
  /\ UiInit

\* countPlaceholders(sql)
ScanCount ==
  /\ op = "idle"
  /\ op' = "scanCount"
  /\ res' = FlagsOf(CountTrace(sql, CountInit))
  /\ UNCHANGED <<sql, params, uiVars>>

\* mergeSql(sql, ps)
ScanMerge ==
  /\ op = "idle"
  /\ \E ps \in ListsUpTo(ScanValues, 1) :
       /\ params' = ps
       /\ res' = FlagsOf(MergeTrace(sql, ps, MergeInit))
  /\ op' = "scanMerge"
  /\ UNCHANGED <<sql, uiVars>>

\* formatSql(sql), its first pass
ScanFormat ==
  /\ op = "idle"
  /\ op' = "scanFormat"
  /\ res' = FlagsOf(FormatTrace(sql, FormatInit))
  /\ UNCHANGED <<sql, params, uiVars>>

\* minifySqlPreserveStrings(sql)
ScanMinify ==
  /\ op = "idle"
  /\ op' = "scanMinify"
  /\ res' = FlagsOf(MinifyTrace(sql, MinifyInit))
  /\ UNCHANGED <<sql, params, uiVars>>

\* highlightSqlHtml(sql)
ScanHighlight ==
  /\ op = "idle"
  /\ op' = "scanHighlight"
  /\ res' = FlagsOf(HighlightTrace(sql, HighlightInit))
  /\ UNCHANGED <<sql, params, uiVars>>

NextScan == ScanCount \/ ScanMerge \/ ScanFormat \/ ScanMinify \/ ScanHighlight

SpecScan == InitScan /\ [][NextScan]_vars

ScanOps == {"scanCount", "scanMerge", "scanFormat", "scanMinify", "scanHighlight"}

\* The quote kind of a loop state.
KindOf(st) ==
  IF st.inSingle THEN "single"
  ELSE IF st.inDouble THEN "double"
  ELSE IF st.inBack THEN "back" ELSE "unquoted"

QuoteOfKind(kind) ==
  IF kind = "single" THEN SQ ELSE IF kind = "double" THEN DQ
  ELSE IF kind = "back" THEN BQ ELSE Undef

\* How the scan tr of the text s classifies position p.  The iteration that
\* takes p is the last that starts at or before it.  A character read inside
\* a quoted region is of that region's kind, the closing quote included; the
\* opening quote is of the kind it opens; the second quote of an escape pair
\* is of the region's kind; a position that an iteration steps over without
\* reading it as text is "skipped".
ClassAt(tr, s, p) ==
  LET j == CHOOSE k \in 1..Len(tr) - 1 : tr[k].i <= p /\ p < tr[k + 1].i
      kind == KindOf(tr[j])
  IN IF p = tr[j].i
     THEN IF kind # "unquoted" THEN kind
          ELSE IF s[p] \in {SQ, DQ, BQ} THEN KindOf(tr[j + 1]) ELSE "unquoted"
     ELSE IF kind # "unquoted" /\ s[p] = QuoteOfKind(kind) /\ s[p - 1] = s[p]
     THEN kind
     ELSE "skipped"

\* C13: every scanner classifies every position of a text as the counter
\* does: unquoted, single-quoted, double-quoted or back-tick-quoted.
C13_ScannersAgree ==
  op \in ScanOps =>
    \A p \in 1..Len(sql) :
      ClassAt(res, sql, p) = ClassAt(FlagsOf(CountTrace(sql, CountInit)), sql, p)

AtMostOneKind(st) ==
  /\ ~(st.inSingle /\ st.inDouble)
  /\ ~(st.inSingle /\ st.inBack)
  /\ ~(st.inDouble /\ st.inBack)

\* From st to nx no quote kind is entered, or st is unquoted.
EntersFromUnquoted(st, nx) ==
  \/ Unquoted(st)
  \/ /\ nx.inSingle => st.inSingle
     /\ nx.inDouble => st.inDouble
     /\ nx.inBack => st.inBack

\* C18: in every state of the scan of each of the five scanners at most one
\* of inSingle, inDouble and inBack is true, and a quote kind is entered only
\* from the unquoted state.
C18_QuoteKindsExclusive ==
  op \in ScanOps =>
    /\ \A j \in 1..Len(res) : AtMostOneKind(res[j])
    /\ \A j \in 1..Len(res) - 1 : EntersFromUnquoted(res[j], res[j + 1])

\* The minifier has scanned "'"` : a single quote read inside a
\* double-quoted region, which it does not open, and then a back-tick region
\* entered from the unquoted state.
C18_Witness ==
  /\ op = "scanMinify"
  /\ sql = <<DQ, SQ, DQ, BQ>>
  /\ \E j \in 1..Len(res) : res[j].i = 2 /\ res[j].inDouble /\ ~res[j].inSingle
  /\ \E j \in 1..Len(res) - 1 : Unquoted(res[j]) /\ res[j + 1].inBack

(***************************************************************************)
(* The beautifier applied to a text, under each behaviour of the external  *)
(* library.                                                                *)
(***************************************************************************)
MaxBeautifyWords == 3
BeautifyWords == {<<"a">>, <<"o", "r">>, <<"f", "r", "o", "m">>}

\* The words ws with sep between them.
RECURSIVE Join(_, _)
Join(ws, sep) ==
  IF ws = <<>> THEN <<>>
  ELSE IF Len(ws) = 1 THEN ws[1]
  ELSE ws[1] \o sep \o Join(Tail(ws), sep)

BeautifyTexts == {Join(ws, <<SP>>) : ws \in ListsUpTo(BeautifyWords, MaxBeautifyWords)}

InitBeautify ==
  /\ sql \in BeautifyTexts
  /\ params = <<>>
  /\ op = "idle"
  /\ res = NoResult
  /\ lib \in LibBehaviours
  /\ jsonInput = EmptyJson
  /\ paramsText = InitialParams
  /\ merged = <<>>
  /\ formatted = <<>>
  /\ error = NoError
  /\ formatMode = "beautify"
  /\ pending = <<>>

\* pretty = await beautifyWithPMTSF(text)
Beautify ==
  /\ op = "idle"
  /\ op' = "beautify"
  /\ res' = beautifyWithPMTSF(sql, lib)
  /\ UNCHANGED <<sql, params, uiVars>>

NextBeautify == Beautify

SpecBeautify == InitBeautify /\ [][NextBeautify]_vars

\* C14: whenever the external beautifier is unavailable or gives no
\* formatted text (the import fails, the call throws, the library has no
\* format function, or the result carries no text), beautifying returns what
\* formatSql returns for the same input.
C14_FallsBackToFormatSql ==
  (op = "beautify" /\ lib \in LibFailures) => res = formatSql(sql)

(***************************************************************************)
(* The component: its handlers as actions on its state.  A handler that    *)
(* awaits the beautifier leaves a pending call; the call completes in a    *)
(* later step, and the rest of the handler runs then.                      *)
(***************************************************************************)
MaxPending == 2

MustContain == <<"JSON must contain 'sql' and 'values' properties">>
InvalidJsonFormat == <<"Invalid JSON format. Please check your input.">>
MustBeArray == <<"Parameters input must be a JSON array.">>
InvalidParams == <<"Invalid JSON. Ensure it's a valid array like: [\"784\", 123, 456]">>

\* !v is false, for a value that is no array
Truthy(v) ==
  IF v.t \in {"undefined", "null"} THEN FALSE
  ELSE IF v.t = "number" THEN v.fin /\ v.n # 0
  ELSE IF v.t = "string" THEN v.s # <<>>
  ELSE IF v.t = "boolean" THEN v.b
  ELSE TRUE

\* !d is false: an array is truthy, the empty one too
TruthyDoc(d) == d.isArray \/ Truthy(d.other)

\* parseParams(text)
parseParams(text) ==
  IF text = NotJson THEN [ok |-> FALSE, items |-> <<>>, error |-> InvalidParams]
  ELSE IF ~text.isArray THEN [ok |-> FALSE, items |-> <<>>, error |-> MustBeArray]
  ELSE [ok |-> TRUE, items |-> text.items, error |-> NoError]

\* The pending call k taken out of the calls ps.
RemoveAt(ps, k) == SubSeq(ps, 1, k - 1) \o SubSeq(ps, k + 1, Len(ps))

\* await updateFormatted(newMerged, mode) and what the handler does after
\* it: setError(err) if setsError.  Without a text to format, and in minify
\* mode, nothing is awaited for and the handler runs to its end; in beautify
\* mode the call to the beautifier stays pending.
UpdateFormatted(newMerged, mode, setsError, err) ==
  IF newMerged # <<>> /\ mode = "beautify"
  THEN /\ Len(pending) < MaxPending
       /\ pending' = Append(pending, [text |-> newMerged, setsError |-> setsError, err |-> err])
       /\ UNCHANGED <<formatted, error>>
  ELSE /\ formatted' = (IF newMerged = <<>> THEN <<>> ELSE minifySqlPreserveStrings(newMerged))
       /\ error' = (IF setsError THEN err ELSE error)
       /\ UNCHANGED pending

\* A pending call to beautifyWithPMTSF completes: setFormatted(pretty), and
\* the handler that awaited it goes on.
Complete ==
  /\ \E k \in 1..Len(pending) :
       /\ formatted' = beautifyWithPMTSF(pending[k].text, lib)
       /\ error' = (IF pending[k].setsError THEN pending[k].err ELSE error)
       /\ pending' = RemoveAt(pending, k)
  /\ op' = "complete"
  /\ UNCHANGED <<sql, params, res, lib, jsonInput, paramsText, merged, formatMode>>

\* onLoadFromJson and onLoadFromJsonAndCopy on the text of the JSON text
\* area.  (What the second writes to the clipboard is not part of the state.)
LoadFromJson ==
  IF jsonInput.k \in {"empty", "malformed", "null"}
  THEN /\ error' = InvalidJsonFormat
       /\ UNCHANGED <<sql, paramsText, merged, formatted, pending>>
  ELSE IF jsonInput.k = "scalar" \/ ~Truthy(jsonInput.sql) \/ ~TruthyDoc(jsonInput.values)
  THEN /\ error' = MustContain
       /\ UNCHANGED <<sql, paramsText, merged, formatted, pending>>
  ELSE /\ sql' = jsonInput.sql.s
       /\ paramsText' = jsonInput.values
       /\ IF jsonInput.values.isArray
          THEN LET r == mergeSql(jsonInput.sql.s, jsonInput.values.items)
               IN /\ merged' = r.result
                  /\ UpdateFormatted(r.result, formatMode, TRUE, r.error)
          ELSE UNCHANGED <<merged, formatted, error, pending>>

onLoadFromJson ==
  /\ LoadFromJson
  /\ op' = "onLoadFromJson"
  /\ UNCHANGED <<params, res, lib, jsonInput, formatMode>>

\* The button is disabled while the text area is empty.
onLoadFromJsonAndCopy ==
  /\ jsonInput.k # "empty"
  /\ LoadFromJson
  /\ op' = "onLoadFromJsonAndCopy"
  /\ UNCHANGED <<params, res, lib, jsonInput, formatMode>>

\* The texts typed into the JSON text area.
LoadedSql == <<"a", QM>>
JsonSqlFields == {UndefinedV, StrV(<<>>), StrV(LoadedSql)}
JsonValuesFields ==
  {OtherDoc(UndefinedV), OtherDoc(NullV), ArrayDoc(<<>>), ArrayDoc(<<NumV(7)>>),
   OtherDoc(StrV(<<"x">>)), OtherDoc(ObjV(<<"o">>))}
JsonTexts ==
  {EmptyJson, JsonText("malformed", UndefinedV, OtherDoc(UndefinedV)),
   JsonText("null", UndefinedV, OtherDoc(UndefinedV)),
   JsonText("scalar", UndefinedV, OtherDoc(UndefinedV))}
  \cup {JsonText("object", s, v) : s \in JsonSqlFields, v \in JsonValuesFields}

\* onChange of the JSON text area: setJsonInput(e.target.value)
setJsonInput ==
  /\ \E j \in JsonTexts : jsonInput' = j
  /\ op' = "setJsonInput"
  /\ UNCHANGED <<sql, params, res, lib, paramsText, merged, formatted, error, formatMode, pending>>

InitLoad ==
  /\ sql = <<QM, "b">>
  /\ params = <<>>
  /\ op = "idle"
  /\ res = NoResult
  /\ UiInit

NextLoad == setJsonInput \/ onLoadFromJson \/ onLoadFromJsonAndCopy \/ Complete

SpecLoad == InitLoad /\ [][NextLoad]_vars

\* The decoded JSON carries a sql text and a values array.
CarriesSqlAndValues(j) ==
  /\ j.k = "object"
  /\ j.sql.t = "string"
  /\ j.values.isArray

LoadOps == {"onLoadFromJson", "onLoadFromJsonAndCopy"}

\* C15: a load from a text whose decoded JSON does not carry both a sql text
\* and a values array (values that are no array included) reports an error,
\* performs no merge, and leaves the SQL text, the parameter text and the
\* merged output as they were.
C15_BadPayloadRejected ==
  [][(op' \in LoadOps /\ ~CarriesSqlAndValues(jsonInput)) =>
       /\ error' \in {MustContain, InvalidJsonFormat}
       /\ sql' = sql
       /\ paramsText' = paramsText
       /\ merged' = merged
       /\ pending' = pending]_vars

(***************************************************************************)
(* The formatter applied to a text.                                        *)
(***************************************************************************)
MaxWords == 3
MaxQuoteTokens == 4
ClauseWords ==
  {<<"a">>, <<"l", "e", "f", "t">>, <<"r", "i", "g", "h", "t">>, <<"f", "u", "l", "l">>,
   <<"i", "n", "n", "e", "r">>, <<"c", "r", "o", "s", "s">>, <<"o", "u", "t", "e", "r">>,
   <<"j", "o", "i", "n">>, <<"u", "n", "i", "o", "n">>, <<"a", "l", "l">>,
   <<"g", "r", "o", "u", "p">>, <<"o", "r", "d", "e", "r">>, <<"b", "y">>}
QuoteTokens == {<<SQ>>, <<SP>>, <<"a">>, <<"A", "N", "D">>}

\* One-line texts of words: a, and then up to MaxWords words.
WordTexts == {Join(<<<<"a">>>> \o ws, <<SP>>) : ws \in ListsUpTo(ClauseWords, MaxWords)}

\* Texts with quotes, blanks and an upper-case AND.
QuoteTexts == {Join(ts, <<>>) : ts \in ListsUpTo(QuoteTokens, MaxQuoteTokens)}

InitFormat ==
  /\ sql \in WordTexts \cup QuoteTexts
  /\ params = <<>>
  /\ op = "idle"
  /\ res = NoResult
  /\ UiInit

\* formatSql(sql), as the catch block of beautifyWithPMTSF calls it
Format ==
  /\ op = "idle"
  /\ op' = "format"
  /\ res' = formatSql(sql)
  /\ UNCHANGED <<sql, params, uiVars>>

NextFormat == Format

SpecFormat == InitFormat /\ [][NextFormat]_vars

\* The clause phrases of more than one word.
MultiWordPhrases == {ClauseRules[k] : k \in {j \in 1..Len(ClauseRules) : Len(ClauseRules[j]) > 1}}

\* Where the phrase ws, as whole words with white space between them, occurs
\* in t from position i on: the position after it; 0 if it does not.
PhraseEnd(t, i, ws) ==
  IF i > 1 /\ IsRegexWordChar(t[i - 1]) THEN 0 ELSE MatchPhrase(t, i, ws, 1)

\* The occurrence of ws at i lies inside no occurrence of a longer phrase.
Outermost(t, i, ws) ==
  ~\E other \in MultiWordPhrases \ {ws} : \E j \in 1..i :
     PhraseEnd(t, j, other) >= PhraseEnd(t, i, ws)

\* C16: in the formatted text of a one-line text every multi-word clause
\* phrase that follows other text has one line break before its first word
\* and none between its words.
C16_PhrasesKeptTogether ==
  (op = "format" /\ \A p \in 1..Len(sql) : sql[p] # NL) =>
    \A ws \in MultiWordPhrases : \A i \in 2..Len(res) :
      (PhraseEnd(res, i, ws) > 0 /\ Outermost(res, i, ws)) =>
        /\ res[i - 1] = NL
        /\ (i > 2 => res[i - 2] # NL)
        /\ \A p \in i..PhraseEnd(res, i, ws) - 1 : res[p] # NL

\* C17: formatSql leaves the content of every quoted region as it is: the
\* characters of the quoted regions of the formatted text are those of the
\* input, white space and upper-case clause words included.
C17_QuotedContentKept ==
  op = "format" => QuotedPart(res) = QuotedPart(sql)

(***************************************************************************)
(* Merge clicks, format-mode toggles and completions of beautify calls.    *)
(***************************************************************************)
UiTexts == {<<>>, <<"o", "r">>, <<"a", SP, SP, QM>>}
UiParams == {ArrayDoc(<<>>), ArrayDoc(<<NumV(7)>>), NotJson}

\* onMerge
onMerge ==
  /\ LET parsed == parseParams(paramsText)
     IN IF parsed.ok
        THEN LET r == mergeSql(sql, parsed.items)
             IN /\ merged' = r.result
                /\ UpdateFormatted(r.result, formatMode, TRUE, r.error)
        ELSE /\ merged' = <<>>
             /\ formatted' = <<>>
             /\ error' = parsed.error
             /\ UNCHANGED pending
  /\ op' = "onMerge"
  /\ UNCHANGED <<sql, params, res, lib, jsonInput, paramsText, formatMode>>

\* onClick of the format switch
toggleFormatMode ==
  /\ LET next == IF formatMode = "beautify" THEN "minify" ELSE "beautify"
     IN /\ formatMode' = next
        /\ UpdateFormatted(merged, next, FALSE, NoError)
  /\ op' = "toggleFormatMode"
  /\ UNCHANGED <<sql, params, res, lib, jsonInput, paramsText, merged>>

\* onChange of the SQL text area: setSql(e.target.value)
setSql ==
  /\ \E t \in UiTexts : sql' = t
  /\ op' = "setSql"
  /\ UNCHANGED <<params, res, uiVars>>

InitUi ==
  /\ sql \in UiTexts
  /\ params = <<>>
  /\ op = "idle"
  /\ res = NoResult
  /\ lib \in LibBehaviours
  /\ jsonInput = EmptyJson
  /\ paramsText \in UiParams
  /\ merged = <<>>
  /\ formatted = <<>>
  /\ error = NoError
  /\ formatMode = "beautify"
  /\ pending = <<>>

NextUi == onMerge \/ toggleFormatMode \/ setSql \/ Complete

SpecUi == InitUi /\ [][NextUi]_vars

\* What updateFormatted shows for the merged text m in the mode mode.
FormattingOf(m, mode) ==
  IF m = <<>> THEN <<>>
  ELSE IF mode = "beautify" THEN beautifyWithPMTSF(m, lib)
  ELSE minifySqlPreserveStrings(m)

\* C19: whenever no format operation is pending, the displayed formatted
\* text is the formatting of the current merged text in the current mode; a
\* beautify call that completes late has not overwritten the output of a
\* later minify request or of a later merge.
C19_FormattedIsCurrent ==
  pending = <<>> => formatted = FormattingOf(merged, formatMode)

====
